---- MODULE Spec2Model ----
(***************************************************************************)
(* VSCodeEditor (src/common/editor_vscode.py): the editor configuration    *)
(* writer of the odev VSCode plugin.                                       *)
(*                                                                         *)
(* Text is modelled at the character level: a string is a sequence of      *)
(* one-character strings, a filesystem path is a sequence of components    *)
(* (each a string).  A Python dict is a sequence of [key, val] records in  *)
(* insertion order with unique keys.                                       *)
(***************************************************************************)
EXTENDS Integers, Sequences, FiniteSets

(***************************************************************************)
(* Bounds of the model.                                                    *)
(***************************************************************************)
\* Entries (files, directories, modules) of the project directory before the
\* editor runs, in the specification Spec.
MaxEntries == 1
\* Entries of the four candidate addon directories together, in the
\* specification SpecMap of the addon path map.
MaxModules == 2
\* configure calls in one behaviour.
MaxCalls == 2

(***************************************************************************)
(* Strings.                                                                *)
(***************************************************************************)
\* Code points of the characters the model uses: Python compares str values
\* code point by code point.
CodePoints ==
  [c \in {"*", "-", ".", "/", "@", "_", "a", "b", "c", "d", "e", "h", "l",
          "m", "o", "t", "w"} |->
     CASE c = "*" -> 42 [] c = "-" -> 45 [] c = "." -> 46 [] c = "/" -> 47
       [] c = "@" -> 64 [] c = "_" -> 95
       [] c = "a" -> 97 [] c = "b" -> 98 [] c = "c" -> 99 [] c = "d" -> 100
       [] c = "e" -> 101 [] c = "h" -> 104 [] c = "l" -> 108 [] c = "m" -> 109
       [] c = "o" -> 111 [] c = "t" -> 116 [] c = "w" -> 119]

\* ord(c)
Ord(c) == CodePoints[c]

RECURSIVE StrLessFrom(_, _, _)
\* a[i:] < b[i:] for two str values equal before position i.
StrLessFrom(a, b, i) ==
  IF i > Len(b) THEN FALSE
  ELSE IF i > Len(a) THEN TRUE
  ELSE IF a[i] = b[i] THEN StrLessFrom(a, b, i + 1)
  ELSE Ord(a[i]) < Ord(b[i])

\* a < b for two str values.
StrLess(a, b) == StrLessFrom(a, b, 1)

RECURSIVE JoinWith(_, _)
\* sep.join(parts)
JoinWith(parts, sep) ==
  IF Len(parts) = 0 THEN <<>>
  ELSE IF Len(parts) = 1 THEN parts[1]
  ELSE parts[1] \o sep \o JoinWith(Tail(parts), sep)

\* Literal path components and names.
s_vscode     == <<".", "v", "s", "c", "o", "d", "e">>
s_addons     == <<"a", "d", "d", "o", "n", "s">>
s_odoo       == <<"o", "d", "o", "o">>
s_enterprise == <<"e", "n", "t", "e", "r", "p", "r", "i", "s", "e">>
s_static     == <<"s", "t", "a", "t", "i", "c">>
s_src        == <<"s", "r", "c">>
s_web        == <<"w", "e", "b">>
s_owl        == <<"o", "w", "l">>
s_dotdot     == <<".", ".">>
s_launch     == <<"l", "a", "u", "n", "c", "h", ".", "j", "s", "o", "n">>
s_tasks      == <<"t", "a", "s", "k", "s", ".", "j", "s", "o", "n">>
s_jsconfig   == <<"j", "s", "c", "o", "n", "f", "i", "g", ".", "j", "s", "o", "n">>
s_ext        == <<".", "c", "o", "d", "e", "-", "w", "o", "r", "k", "s", "p", "a", "c", "e">>
s_slash      == <<"/">>

(***************************************************************************)
(* Paths.                                                                  *)
(***************************************************************************)
\* str(path) of an absolute path.
PathStr(p) == s_slash \o JoinWith(p, s_slash)

RECURSIVE CommonLen(_, _)
\* Length of the longest common prefix of two component sequences.
CommonLen(p, q) ==
  IF Len(p) = 0 \/ Len(q) = 0 \/ p[1] # q[1] THEN 0
  ELSE 1 + CommonLen(Tail(p), Tail(q))

\* os.path.relpath(target, start) for absolute, normalised paths.
RelPath(target, start) ==
  LET i    == CommonLen(target, start)
      ups  == [k \in 1..(Len(start) - i) |-> s_dotdot]
      rest == SubSeq(target, i + 1, Len(target))
      rel  == ups \o rest
  IN IF Len(rel) = 0 THEN <<".">> ELSE JoinWith(rel, s_slash)

(***************************************************************************)
(* Python dict and sorted().                                               *)
(***************************************************************************)
DictKeys(d) == {d[i].key : i \in 1..Len(d)}

\* A variant, dict.setdefault(k, v): a key the dict already holds keeps its
\* value.
DictSetKeepFirst(d, k, v) ==
  IF k \in DictKeys(d) THEN d ELSE Append(d, [key |-> k, val |-> v])

\* d[k] = v: an existing key keeps its position and takes the new value, a
\* new key is appended.
DictSet(d, k, v) ==
  IF k \in DictKeys(d)
  THEN [i \in 1..Len(d) |-> IF d[i].key = k THEN [key |-> k, val |-> v] ELSE d[i]]
  ELSE Append(d, [key |-> k, val |-> v])

\* Items compare as (key, value) tuples; the keys of a dict are distinct, so
\* the key decides.
ItemLess(x, y) == StrLess(x.key, y.key)

RECURSIVE InsertSorted(_, _)
InsertSorted(sorted, x) ==
  IF Len(sorted) = 0 THEN <<x>>
  ELSE IF ItemLess(x, sorted[1]) THEN <<x>> \o sorted
  ELSE <<sorted[1]>> \o InsertSorted(Tail(sorted), x)

RECURSIVE SortFrom(_, _)
SortFrom(done, todo) ==
  IF Len(todo) = 0 THEN done
  ELSE SortFrom(InsertSorted(done, todo[1]), Tail(todo))

\* A variant: paths_map.items() as they are.
Unsorted(items) == items

\* sorted(paths_map.items())
Sorted(items) == SortFrom(<<>>, items)

RECURSIVE DictFrom(_, _)
\* dict(items)
DictFrom(d, items) ==
  IF Len(items) = 0 THEN d
  ELSE DictFrom(DictSet(d, items[1].key, items[1].val), Tail(items))

\* json.dumps(d, indent=4): the members of the JSON object in the order of
\* the dict, each a name and its array of strings.
JsonDumps(d) == [i \in 1..Len(d) |-> <<d[i].key, d[i].val>>]

(***************************************************************************)
(* The editor's collaborators and the filesystem.                          *)
(***************************************************************************)
VARIABLES
  database,   \* self.database: [local, name]
  link,       \* whether worktrees_path / worktree is a symbolic link
  roots,      \* the candidate addon directories of the worktree that exist
  tree,       \* entries of the candidate directories: [dir, name, kind]
  dirs,       \* directories made by the editor
  files,      \* files written by the editor: path -> content
  results,    \* how each configure call so far ended, oldest first
  fault,      \* the failure the last configure call met
  warnings,   \* warnings the last configure call logged
  infos,      \* info messages the last configure call logged
  written,    \* paths the last configure call opened for writing, in order
  cmd         \* what the last read of the command property gave

vars == <<database, link, roots, tree, dirs, files, results, fault,
          warnings, infos, written, cmd>>

\* configure calls made so far, and how the last one ended.
calls == Len(results)
result == IF calls = 0 THEN "none" ELSE results[calls]

\* self.path
ProjectPath == << <<"h", "o", "m", "e">>, <<"p", "r", "o", "j">> >>
\* database.odev.worktrees_path / database.worktree
OdooPath == << <<"w", "t">>, <<"m", "a", "s", "t", "e", "r">> >>
\* Where the worktree really is when OdooPath is a symbolic link.
LinkTarget == << <<"d", "a", "t", "a">>, <<"o", "d", "o", "o">> >>

DbNames == { <<"m", "y", "d", "b">>, <<"d", "b">> }
ModuleNames == { s_web, s_owl }
Kinds == {"file", "dir", "module"}
RootIds == {"addons", "odoo_addons", "enterprise"}
DirIds == RootIds \cup {"project"}

\* Path(odoo_path).resolve()
Resolve(p) == IF link /\ p = OdooPath THEN LinkTarget ELSE p

\* Where a candidate directory is on disk.
DirPath(id) ==
  CASE id = "addons"      -> Resolve(OdooPath) \o <<s_addons>>
    [] id = "odoo_addons" -> Resolve(OdooPath) \o <<s_odoo, s_addons>>
    [] id = "enterprise"  -> Resolve(OdooPath) \o <<s_enterprise>>
    [] id = "project"     -> ProjectPath

\* The disk as a call sees it: the directories and files the editor made
\* so far ([dirs, files, ...]) beside roots and tree.
Disk == [dirs |-> dirs, files |-> files]

\* The directories on disk.
DirNodes(st) ==
  {ProjectPath} \cup {DirPath(r) : r \in roots} \cup st.dirs
    \cup {DirPath(e.dir) \o <<e.name>> : e \in {x \in tree : x.kind # "file"}}
    \cup {DirPath(e.dir) \o <<e.name, s_static>> :
            e \in {x \in tree : x.kind = "module"}}
    \cup {DirPath(e.dir) \o <<e.name, s_static, s_src>> :
            e \in {x \in tree : x.kind = "module"}}

\* The regular files on disk.
FileNodes(st) ==
  DOMAIN st.files
    \cup {DirPath(e.dir) \o <<e.name>> : e \in {x \in tree : x.kind = "file"}}

\* Path.exists(), Path.is_dir()
Exists(p, st) == p \in DirNodes(st) \cup FileNodes(st)
IsDir(p, st) == p \in DirNodes(st)

\* The entries Path.iterdir() yields, in no particular order.
IterDir(d, st) ==
  {p \in DirNodes(st) \cup FileNodes(st) :
     Len(p) = Len(d) + 1 /\ SubSeq(p, 1, Len(d)) = d}

RECURSIVE Orders(_)
\* The orders in which a set of entries can be enumerated.
Orders(S) ==
  IF S = {} THEN {<<>>}
  ELSE UNION {{<<x>> \o rest : rest \in Orders(S \ {x})} : x \in S}

(***************************************************************************)
(* VSCodeEditor.                                                           *)
(***************************************************************************)
\* A variant: isinstance(self.database, Database), true of any database.
IsAnyDatabase == TRUE

\* isinstance(self.database, LocalDatabase)
IsLocalDatabase == database.local

\* _name
EditorName == <<"c", "o", "d", "e">>

workspace_directory == ProjectPath \o <<s_vscode>>

workspace_path == workspace_directory \o <<database.name \o s_ext>>

\* A variant: the launch file beside the project's own files.
launch_path_in_project == ProjectPath \o <<s_launch>>

launch_path == workspace_directory \o <<s_launch>>

tasks_path == workspace_directory \o <<s_tasks>>

\* A variant: jsconfig.json with the other generated files.
jsconfig_path_in_vscode == workspace_directory \o <<s_jsconfig>>

\* self.path / "jsconfig.json"
jsconfig_path == ProjectPath \o <<s_jsconfig>>

\* A variant: a database that is not local opens the project directory.
command_fallback ==
  IF IsLocalDatabase
  THEN [raised |-> "none", value |-> EditorName \o <<" ">> \o PathStr(workspace_path)]
  ELSE [raised |-> "none", value |-> EditorName \o <<" ">> \o PathStr(ProjectPath)]

\* The command property: what reading it gives.
command ==
  IF IsLocalDatabase
  THEN [raised |-> "none", value |-> EditorName \o <<" ">> \o PathStr(workspace_path)]
  ELSE [raised |-> "OdevError", value |-> <<>>]

\* _get_rendered_template(template_name, **kwargs): the text is a function
\* of the template and of the values substituted.
Render(template_name, kwargs) ==
  [template |-> template_name, kwargs |-> kwargs, complete |-> TRUE]

\* What open(path, "w") leaves when the write after it fails: the file,
\* emptied or holding part of the text.
Truncated(content) == [content EXCEPT !.complete = FALSE]

\* The failures a configure call can meet: none, mkdir raising, or one of the
\* four steps raising, before its file is opened (rendering, the scan or
\* open() fails) or after (the write fails).
Faults ==
  {[step |-> "none", opened |-> FALSE], [step |-> "mkdir", opened |-> FALSE]}
    \cup [step : {"workspace", "launch", "tasks", "jsconfig"}, opened : BOOLEAN]

\* A variant: Path.mkdir(parents=True), which raises on any existing path.
MkdirNoExistOk(p, st) == Exists(p, st)

\* Path.mkdir(parents=True, exist_ok=True) raises FileExistsError only when
\* the path exists and is not a directory.
MkdirExistsError(p, st) == Exists(p, st) /\ ~IsDir(p, st)

\* self.workspace_directory.mkdir(parents=True, exist_ok=True)
MakeDirs(st, f) ==
  IF f.step = "mkdir" \/ MkdirExistsError(workspace_directory, st)
  THEN [st EXCEPT !.raised = TRUE]
  ELSE [st EXCEPT !.dirs = @ \cup {workspace_directory}]

\* f.write(text) into a file opened with "w".
WriteText(fs, path, content) ==
  [p \in DOMAIN fs \cup {path} |-> IF p = path THEN content ELSE fs[p]]

\* A variant: a failing step is skipped and the call goes on.
CreateFileSwallow(st, step, path, content, f) ==
  IF st.raised \/ f.step = step THEN st
  ELSE [st EXCEPT !.files = WriteText(@, path, content),
                  !.written = Append(@, path)]

\* with open(path, "w") as f: f.write(rendered_template), as one step of
\* configure: skipped when an earlier step raised.
CreateFile(st, step, path, content, f) ==
  IF st.raised THEN st
  ELSE IF f.step = step
  THEN IF f.opened
       THEN [st EXCEPT !.files = WriteText(@, path, Truncated(content)),
                       !.written = Append(@, path),
                       !.raised = TRUE]
       ELSE [st EXCEPT !.raised = TRUE]
  ELSE [st EXCEPT !.files = WriteText(@, path, content),
                  !.written = Append(@, path)]

create_workspace(st, f) ==
  CreateFile(st, "workspace", workspace_path,
             Render("code-workspace.jinja",
                    [DB_NAME |-> database.name,
                     ODOO_PATH |-> PathStr(OdooPath),
                     VENV_PATH |-> "database.venv.python",
                     PYTHON_PATH |-> "PythonEnv().python",
                     ODEV_EXE_PATH |-> "database.odev.path/main.py"]), f)

create_launch(st, f) ==
  CreateFile(st, "launch", launch_path, Render("launch.jinja", <<>>), f)

create_tasks(st, f) ==
  CreateFile(st, "tasks", tasks_path,
             Render("tasks.jinja", [DB_VERSION |-> "database.version"]), f)

\* The known framework type packages the map starts from.
s_types == <<"@", "t", "y", "p", "e", "s">>
s_owl_d_ts == <<"o", "w", "l", ".", "d", ".", "t", "s">>
s_hoot_d_ts == <<"h", "o", "o", "t", ".", "d", ".", "t", "s">>
k_odoo_owl == <<"@", "o", "d", "o", "o", "/", "o", "w", "l">>
k_odoo_hoot == <<"@", "o", "d", "o", "o", "/", "h", "o", "o", "t">>
k_odoo_hoot_dom ==
  <<"@", "o", "d", "o", "o", "/", "h", "o", "o", "t", "-", "d", "o", "m">>

WebTypes(file) ==
  JoinWith(<<s_odoo, s_addons, s_web, s_static, s_src, s_types, file>>, s_slash)

FixedAliases ==
  << [key |-> k_odoo_owl, val |-> <<WebTypes(s_owl_d_ts)>>],
     [key |-> k_odoo_hoot, val |-> <<WebTypes(s_hoot_d_ts)>>],
     [key |-> k_odoo_hoot_dom, val |-> <<WebTypes(s_hoot_d_ts)>>] >>

\* The four candidate directories, in scan order.
addon_dirs(root) ==
  << root \o <<s_addons>>,
     root \o <<s_odoo, s_addons>>,
     root \o <<s_enterprise>>,
     ProjectPath >>

\* A variant: f"@odoo/{module.name}"
AliasKeyScoped(name) == <<"@", "o", "d", "o", "o", "/">> \o name

\* f"@{module.name}/*"
AliasKey(name) == <<"@">> \o name \o <<"/", "*">>

\* [f"{rel_path}/*"]
AliasValue(static_src_path, root) ==
  << RelPath(static_src_path, root) \o <<"/", "*">> >>

\* A variant: every subdirectory counts as a module.
HasStaticSrcAlways(module, st) == TRUE

\* (module / "static" / "src").exists()
HasStaticSrc(module, st) == Exists(module \o <<s_static, s_src>>, st)

\* The body of the inner loop for one entry of a candidate directory.
ScanModule(paths_map, module, root, st) ==
  IF IsDir(module, st) /\ HasStaticSrc(module, st)
  THEN DictSet(paths_map, AliasKey(module[Len(module)]),
               AliasValue(module \o <<s_static, s_src>>, root))
  ELSE paths_map

RECURSIVE ScanDir(_, _, _, _)
\* for module in addon_dir.iterdir(), the entries coming in the given order.
ScanDir(paths_map, order, root, st) ==
  IF Len(order) = 0 THEN paths_map
  ELSE ScanDir(ScanModule(paths_map, order[1], root, st), Tail(order), root, st)

RECURSIVE ScanDirs(_, _, _, _, _)
\* for addon_dir in addon_dirs, skipping the directories that do not exist.
ScanDirs(paths_map, todo, orders, root, st) ==
  IF Len(todo) = 0 THEN paths_map
  ELSE IF ~Exists(todo[1], st)
  THEN ScanDirs(paths_map, Tail(todo), Tail(orders), root, st)
  ELSE ScanDirs(ScanDir(paths_map, orders[1], root, st),
                Tail(todo), Tail(orders), root, st)

\* paths_map after the scan.
PathsMap(orders, st) ==
  ScanDirs(FixedAliases, addon_dirs(Resolve(OdooPath)), orders,
           Resolve(OdooPath), st)

\* modules_mapping
ModulesMapping(orders, st) == DictFrom(<<>>, Sorted(PathsMap(orders, st)))

\* The enumeration orders the four scans can meet.
ScanOrders(st) ==
  LET ds == addon_dirs(Resolve(OdooPath))
  IN {<<o1, o2, o3, o4>> :
        o1 \in Orders(IterDir(ds[1], st)), o2 \in Orders(IterDir(ds[2], st)),
        o3 \in Orders(IterDir(ds[3], st)), o4 \in Orders(IterDir(ds[4], st))}

create_jsconfig(st, orders, f) ==
  CreateFile(st, "jsconfig", jsconfig_path,
             Render("jsconfig.jinja",
                    [ODOO_PATH |-> PathStr(OdooPath),
                     JS_MODULES_PATHS |-> JsonDumps(ModulesMapping(orders, st))]),
             f)

(***************************************************************************)
(* The state machine.                                                      *)
(***************************************************************************)
RECURSIVE Trees(_, _)
\* The ways to place at most n entries in the directories ds, one per name
\* and directory.
Trees(n, ds) ==
  IF n = 0 THEN {{}}
  ELSE LET smaller == Trees(n - 1, ds)
       IN smaller \cup
          {t \cup {[dir |-> d, name |-> m, kind |-> k]} :
             t \in smaller,
             d \in ds, m \in ModuleNames, k \in Kinds}

OnePerName(t) ==
  \A x, y \in t : x.dir = y.dir /\ x.name = y.name => x = y

NoCall == [step |-> "none", opened |-> FALSE]
NoCmd == [raised |-> "unread", value |-> <<>>]

\* The state before the editor is used: a project directory the editor has
\* not touched, and at most maxEntries entries in the directories entryDirs
\* that exist.
InitWith(maxEntries, databases, links, rootSets, entryDirs) ==
  /\ database \in databases
  /\ link \in links
  /\ roots \in rootSets
  /\ tree \in {t \in Trees(maxEntries, entryDirs \cap (roots \cup {"project"})) :
                 OnePerName(t)}
  /\ dirs = {}
  /\ files = <<>>
  /\ results = <<>>
  /\ fault = NoCall
  /\ warnings = 0
  /\ infos = 0
  /\ written = <<>>
  /\ cmd = NoCmd

\* Any database, a worktree whose candidate directories exist and are empty,
\* and a project directory of at most MaxEntries entries.
Init ==
  InitWith(MaxEntries, [local : BOOLEAN, name : DbNames], {FALSE}, {RootIds},
           {"project"})

\* configure(): a non-local database is skipped with a warning; otherwise
\* the directory is made and the four files are written in turn, an
\* exception ending the call where it is raised.
Configure ==
  /\ calls < MaxCalls
  /\ UNCHANGED <<database, link, roots, tree, cmd>>
  /\ IF ~IsLocalDatabase
     THEN /\ warnings' = 1
          /\ infos' = 0
          /\ results' = Append(results, "returned")
          /\ written' = <<>>
          /\ fault' = NoCall
          /\ UNCHANGED <<dirs, files>>
     ELSE \E f \in Faults :
          \E s1 \in {MakeDirs([dirs |-> dirs, files |-> files,
                               written |-> <<>>, raised |-> FALSE], f)} :
          \E s2 \in {create_workspace(s1, f)} :
          \E s3 \in {create_launch(s2, f)} :
          \E s4 \in {create_tasks(s3, f)} :
          \E orders \in (IF s4.raised THEN {<<>>} ELSE ScanOrders(s4)) :
          \E s5 \in {create_jsconfig(s4, orders, f)} :
            /\ dirs' = s5.dirs
            /\ files' = s5.files
            /\ written' = s5.written
            /\ fault' = f
            /\ results' = Append(results, IF s5.raised THEN "raised" ELSE "returned")
            /\ warnings' = 0
            /\ infos' = IF s5.raised THEN 0 ELSE 1

\* Reading the command property.
Command ==
  /\ cmd' = command
  /\ UNCHANGED <<database, link, roots, tree, dirs, files, results, fault,
                 warnings, infos, written>>

Next == Configure \/ Command

Spec == Init /\ [][Next]_vars

\* _create_jsconfig() alone, on a project of a local database.
CreateJsconfig ==
  /\ \E s0 \in {[dirs |-> dirs, files |-> files, written |-> <<>>,
                 raised |-> FALSE]} :
     \E orders \in ScanOrders(s0) :
     \E s1 \in {create_jsconfig(s0, orders, NoCall)} :
       /\ files' = s1.files
       /\ written' = s1.written
  /\ UNCHANGED <<database, link, roots, tree, dirs, results, fault,
                 warnings, infos, cmd>>

\* A local database, a worktree that may be a symbolic link, any of its
\* candidate directories existing, at most MaxModules entries in the four.
InitMap ==
  InitWith(MaxModules, [local : {TRUE}, name : {<<"m", "y", "d", "b">>}],
           BOOLEAN, SUBSET RootIds, DirIds)

SpecMap == InitMap /\ [][CreateJsconfig]_vars

(***************************************************************************)
(* Properties of configure and of the command property, under Spec.        *)
(***************************************************************************)
\* The four steps of configure in the order the spec gives them, and the
\* file each is to write.
StepNames == <<"workspace", "launch", "tasks", "jsconfig">>

ExpectedVscode == ProjectPath \o <<s_vscode>>

ExpectedPath(step) ==
  CASE step = "workspace" -> ProjectPath \o <<s_vscode, database.name \o s_ext>>
    [] step = "launch"    -> ProjectPath \o <<s_vscode, s_launch>>
    [] step = "tasks"     -> ProjectPath \o <<s_vscode, s_tasks>>
    [] step = "jsconfig"  -> ProjectPath \o <<s_jsconfig>>

ExpectedPaths == [i \in 1..4 |-> ExpectedPath(StepNames[i])]

\* The position of the step that failed, 0 for mkdir, 5 when none did.
FailedAt ==
  CASE fault.step = "mkdir" -> 0
    [] fault.step = "none"  -> 5
    [] OTHER -> CHOOSE i \in 1..4 : StepNames[i] = fault.step

InFile(p) == p \in DOMAIN files
IsWhole(p) == InFile(p) /\ files[p].complete
Inside(p, d) == Len(p) > Len(d) /\ SubSeq(p, 1, Len(d)) = d
WasWritten(p) == \E i \in 1..Len(written) : written[i] = p

\* C1: configure on a database that is not local returns without raising,
\* logs exactly one warning and leaves the filesystem as it was: no .vscode
\* directory, none of the four files.
C1_NonLocalSkipped ==
  (calls > 0 /\ ~database.local) =>
     /\ \A i \in 1..calls : results[i] = "returned"
     /\ warnings = 1
     /\ infos = 0
     /\ written = <<>>
     /\ dirs = {}
     /\ DOMAIN files = {}

C1_Witness == calls > 0 /\ ~database.local /\ warnings = 1

\* C2: on a fresh project directory, with a local database and no failing
\* write, configure creates exactly the directory <project>/.vscode and the
\* files <project>/.vscode/<database-name>.code-workspace,
\* <project>/.vscode/launch.json, <project>/.vscode/tasks.json and
\* <project>/jsconfig.json.
C2_CreatesExactlyFour ==
  (calls = 1 /\ database.local /\ fault.step = "none") =>
     /\ result = "returned"
     /\ dirs = {ExpectedVscode}
     /\ DOMAIN files = {ExpectedPaths[i] : i \in 1..4}
     /\ \A p \in DOMAIN files : files[p].complete

C2_Witness ==
  /\ calls = 1 /\ database.local /\ fault.step = "none"
  /\ Cardinality(DOMAIN files) = 4
  /\ tree # {}

\* C3 as stated: every file configure writes has a path inside
\* <project>/.vscode.
C3_AllInsideVscode ==
  /\ \A i \in 1..Len(written) : Inside(written[i], ExpectedVscode)
  /\ \A p \in DOMAIN files : Inside(p, ExpectedVscode)

\* C3, amended: every file configure writes is inside <project>/.vscode,
\* except jsconfig.json, which is written to the project root itself.
C3_InsideVscodeOrJsconfig ==
  /\ \A i \in 1..Len(written) :
       \/ Inside(written[i], ExpectedVscode)
       \/ written[i] = ProjectPath \o <<s_jsconfig>>
  /\ \A p \in DOMAIN files :
       \/ Inside(p, ExpectedVscode)
       \/ p = ProjectPath \o <<s_jsconfig>>
  /\ \A d \in dirs : d = ExpectedVscode

C3_Witness ==
  /\ calls = MaxCalls
  /\ InFile(ProjectPath \o <<s_jsconfig>>)
  /\ \E p \in DOMAIN files : Inside(p, ExpectedVscode)

\* C4: after a configure call that succeeded on a local database, a second
\* call on unchanged inputs succeeds although .vscode exists, writes each
\* of the four files again, and leaves the same files with the same content.
C4_Idempotent ==
  [][(/\ database.local
      /\ result = "returned"
      /\ Len(results') = calls + 1
      /\ fault'.step = "none")
     => (/\ results'[calls + 1] = "returned"
         /\ written' = ExpectedPaths
         /\ files' = files
         /\ dirs' = dirs)]_vars

C4_Witness ==
  /\ database.local
  /\ calls >= 2
  /\ results[calls - 1] = "returned"
  /\ results[calls] = "returned"
  /\ written = ExpectedPaths
  /\ \E e \in tree : e.kind = "module"

\* C5 as stated: the files are written in the order workspace, launch,
\* tasks, jsconfig, and when step k fails the call raises, every file of a
\* step before k is in place with its new content, and no file of step k or
\* of a later step is written by that call.
C5_NothingFromFailedStepOn ==
  (calls > 0 /\ database.local /\ FailedAt \in 1..4) =>
     /\ result = "raised"
     /\ written = SubSeq(ExpectedPaths, 1, FailedAt - 1)
     /\ \A j \in 1..(FailedAt - 1) : IsWhole(ExpectedPaths[j])
     /\ \A j \in FailedAt..4 : ~WasWritten(ExpectedPaths[j])

\* C5, amended: the files are written in the order workspace, launch, tasks,
\* jsconfig; when step k fails the call raises, every file of a step before
\* k is in place with its new content, no file of a later step is written by
\* that call, and the file of step k is either not touched or, when the
\* failure comes after it was opened for writing, left without its full
\* content.
C5_OrderAndNoCleanup ==
  (calls > 0 /\ database.local) =>
     /\ result = (IF FailedAt = 5 THEN "returned" ELSE "raised")
     /\ infos = (IF FailedAt = 5 THEN 1 ELSE 0)
     /\ Len(written) \in {FailedAt - 1, FailedAt} \cap 0..4
     /\ written = SubSeq(ExpectedPaths, 1, Len(written))
     /\ \A j \in 1..4 : j < FailedAt => IsWhole(ExpectedPaths[j])
     /\ \A j \in 1..4 : j > FailedAt => ~WasWritten(ExpectedPaths[j])
     /\ \A j \in 1..4 :
          (j = FailedAt /\ WasWritten(ExpectedPaths[j]))
             => (InFile(ExpectedPaths[j]) /\ ~files[ExpectedPaths[j]].complete)

C5_Witness ==
  /\ calls >= 2
  /\ results[calls - 1] = "returned"
  /\ result = "raised"
  /\ FailedAt = 3
  /\ fault.opened
  /\ IsWhole(ExpectedPaths[2])
  /\ IsWhole(ExpectedPaths[4])

\* C6: the command property never falls back: for a database that is not
\* local it raises OdevError and gives no string, for a local one it gives
\* "code " followed by <project>/.vscode/<database-name>.code-workspace.
C6_CommandOrError ==
  (cmd.raised # "unread") =>
     IF database.local
     THEN /\ cmd.raised = "none"
          /\ cmd.value = <<"c", "o", "d", "e", " ">>
                           \o PathStr(ExpectedPath("workspace"))
     ELSE /\ cmd.raised = "OdevError"
          /\ cmd.value = <<>>

C6_Witness == ~database.local /\ cmd.raised = "OdevError" /\ calls > 0

(***************************************************************************)
(* Properties of the addon path map, under SpecMap.                        *)
(***************************************************************************)
JsconfigWritten == InFile(ProjectPath \o <<s_jsconfig>>)

\* The members of the serialized mapping in jsconfig.json, in file order.
Members == files[ProjectPath \o <<s_jsconfig>>].kwargs.JS_MODULES_PATHS

MemberKeys == {Members[i][1] : i \in 1..Len(Members)}

ValuesOf(k) == {Members[i][2] : i \in {j \in 1..Len(Members) : Members[j][1] = k}}

\* The alias of a module directory and the one-element value the spec gives
\* it for a module found in directory d.
AliasOf(m) == <<"@">> \o m \o <<"/", "*">>

ExpectedValue(d, m) ==
  LET rel == CASE d = "addons"      -> <<s_addons, m, s_static, s_src>>
               [] d = "odoo_addons" -> <<s_odoo, s_addons, m, s_static, s_src>>
               [] d = "enterprise"  -> <<s_enterprise, m, s_static, s_src>>
               [] d = "project"     -> <<s_dotdot, s_dotdot, ProjectPath[1],
                                         ProjectPath[2], m, s_static, s_src>>
  IN << JoinWith(rel, s_slash) \o <<"/", "*">> >>

\* Directory d exists and holds a subdirectory m with static/src.
HasModule(d, m) ==
  /\ d \in roots \cup {"project"}
  /\ [dir |-> d, name |-> m, kind |-> "module"] \in tree

ScanRank(d) ==
  CASE d = "addons" -> 1 [] d = "odoo_addons" -> 2 [] d = "enterprise" -> 3
    [] d = "project" -> 4

FixedKeys == {k_odoo_owl, k_odoo_hoot, k_odoo_hoot_dom}

\* a sorts before b by code points: at the first position where they
\* differ a has ended or holds the smaller character.
Precedes(a, b) ==
  \E i \in 1..Len(b) :
    /\ \A j \in 1..(i - 1) : j <= Len(a) /\ a[j] = b[j]
    /\ \/ i = Len(a) + 1
       \/ i <= Len(a) /\ CodePoints[a[i]] < CodePoints[b[i]]

\* C7: the map has the key @M/* exactly when some existing candidate
\* directory holds a subdirectory M with static/src, its value is the one
\* path of such an M/static/src relative to the source root followed by /*;
\* subdirectories without static/src, files and missing roots give no key;
\* the fixed aliases are present.
C7_KeysAreModules ==
  JsconfigWritten =>
    /\ \A m \in ModuleNames :
         /\ (AliasOf(m) \in MemberKeys) <=> (\E d \in DirIds : HasModule(d, m))
         /\ \A v \in ValuesOf(AliasOf(m)) :
              \E d \in DirIds : HasModule(d, m) /\ v = ExpectedValue(d, m)
    /\ MemberKeys \subseteq FixedKeys \cup {AliasOf(m) : m \in ModuleNames}
    /\ FixedKeys \subseteq MemberKeys

C7_Witness ==
  /\ JsconfigWritten
  /\ RootIds \ roots # {}
  /\ \E x, y \in tree :
       /\ x.kind = "module" /\ y.kind # "module" /\ x.name # y.name
       /\ AliasOf(x.name) \in MemberKeys
       /\ AliasOf(y.name) \notin MemberKeys

\* C8: whatever the order in which each directory is enumerated, the
\* serialized mapping is the same, and its keys are in ascending order.
C8_Deterministic ==
  JsconfigWritten =>
    /\ \A orders \in ScanOrders(Disk) :
         JsonDumps(ModulesMapping(orders, Disk)) = Members
    /\ \A i \in 1..(Len(Members) - 1) : Precedes(Members[i][1], Members[i + 1][1])

C8_Witness ==
  /\ JsconfigWritten
  /\ \E d \in DirIds : \A m \in ModuleNames : HasModule(d, m)
  /\ Len(Members) = 3 + Cardinality(ModuleNames)

\* C9: keys are unique, and a module name found with static/src under more
\* than one candidate directory has one entry, whose value is the path
\* under the directory scanned last (addons, odoo/addons, enterprise,
\* project).
C9_LastScanWins ==
  JsconfigWritten =>
    /\ \A i, j \in 1..Len(Members) : Members[i][1] = Members[j][1] => i = j
    /\ \A m \in ModuleNames : \A d \in DirIds :
         (/\ HasModule(d, m)
          /\ \A e \in DirIds : HasModule(e, m) => ScanRank(e) <= ScanRank(d))
           => ValuesOf(AliasOf(m)) = {ExpectedValue(d, m)}

C9_Witness ==
  /\ JsconfigWritten
  /\ \E m \in ModuleNames : \E d, e \in DirIds :
       /\ ScanRank(d) < ScanRank(e)
       /\ HasModule(d, m) /\ HasModule(e, m)
       /\ ValuesOf(AliasOf(m)) = {ExpectedValue(e, m)}

\* C10: whatever the candidate directories hold, the map keeps the three
\* fixed aliases @odoo/owl, @odoo/hoot and @odoo/hoot-dom with their seeded
\* values: no discovered key is the key of a fixed alias.
C10_FixedAliasesKept ==
  JsconfigWritten =>
    /\ ValuesOf(k_odoo_owl) =
         {<<JoinWith(<<s_odoo, s_addons, s_web, s_static, s_src, s_types,
                       s_owl_d_ts>>, s_slash)>>}
    /\ ValuesOf(k_odoo_hoot) =
         {<<JoinWith(<<s_odoo, s_addons, s_web, s_static, s_src, s_types,
                       s_hoot_d_ts>>, s_slash)>>}
    /\ ValuesOf(k_odoo_hoot_dom) = ValuesOf(k_odoo_hoot)
    /\ \A e \in tree : AliasOf(e.name) \notin FixedKeys
    /\ \A k \in MemberKeys \ FixedKeys :
         /\ k[1] = "@"
         /\ k[Len(k) - 1] = "/" /\ k[Len(k)] = "*"
         /\ \A i \in 2..(Len(k) - 2) : k[i] # "/"

C10_Witness ==
  /\ JsconfigWritten
  /\ \E d \in DirIds : HasModule(d, s_owl)
  /\ AliasOf(s_owl) \in MemberKeys

====
